---- MODULE Spec2Model ----
(***************************************************************************)
(* Cloudberry dialect of sqlglot: the CREATE EXTERNAL TABLE clause parser  *)
(* (Cloudberry.Parser._parse_create), the generator                        *)
(* (Cloudberry.Generator.create_sql / property_sql) and the registry patch *)
(* at the end of sqlglot/dialects/cloudberry.py.                           *)
(*                                                                         *)
(* SQL text is a sequence of lexemes (words, quoted strings, punctuation   *)
(* and single blanks); the tokenizer drops the blanks and classifies each  *)
(* lexeme.  The parser is a step machine over the Parser object (token     *)
(* list, cursor, error level, recorded errors) and the locals of           *)
(* _parse_create; one step per clause of the method, one step per          *)
(* iteration of the FORMAT option loop.                                    *)
(***************************************************************************)
EXTENDS Integers, Sequences, FiniteSets, TLC

VARIABLES source, parser, classes, pass, write, generated, node

vars == <<source, parser, classes, pass, write, generated, node>>

(***************************************************************************)
(* Bounds                                                                  *)
(***************************************************************************)
\* longest sequence of clauses (in any order, repeats allowed) in an input
MaxClauses == 3
\* longest FORMAT option list in an input
MaxOpts == 2
\* iterations of the option loop that are followed before the run is cut
MaxLoop == 4

(***************************************************************************)
(* Lexemes and text                                                        *)
(***************************************************************************)
Wd(t) == [k |-> "word", t |-> t]
St(t) == [k |-> "str", t |-> t]
Pn(t) == [k |-> "punct", t |-> t]
Sp == [k |-> "ws", t |-> " "]

\* str.upper() on the words the model uses
Upper(t) ==
  CASE t = "null" -> "NULL"
    [] t = "json" -> "JSON"
    [] t = "format" -> "FORMAT"
    [] t = "encoding" -> "ENCODING"
    [] OTHER -> t

\* " ".join(parts) for parts that are themselves texts
RECURSIVE JoinWith(_, _)
JoinWith(parts, sep) ==
  IF Len(parts) = 0 THEN <<>>
  ELSE IF Len(parts) = 1 THEN parts[1]
  ELSE parts[1] \o sep \o JoinWith(Tail(parts), sep)

RECURSIVE LStrip(_)
LStrip(text) ==
  IF Len(text) > 0 /\ text[1] = Sp THEN LStrip(Tail(text)) ELSE text

RECURSIVE RStrip(_)
RStrip(text) ==
  IF Len(text) > 0 /\ text[Len(text)] = Sp
  THEN RStrip(SubSeq(text, 1, Len(text) - 1)) ELSE text

\* str.strip()
Strip(text) == LStrip(RStrip(text))

(***************************************************************************)
(* Tokenizer                                                               *)
(***************************************************************************)
\* Postgres.Tokenizer.KEYWORDS, the part the model's words need
BaseKeywords ==
  [CREATE |-> "CREATE", TABLE |-> "TABLE", VIEW |-> "VIEW", NOT |-> "NOT", EXISTS |-> "EXISTS",
   NULL |-> "NULL", JSON |-> "JSON", ON |-> "ON", ALL |-> "ALL",
   FORMAT |-> "FORMAT", TEMPORARY |-> "TEMPORARY"]

\* Cloudberry.Tokenizer.KEYWORDS
KEYWORDS ==
  [w \in DOMAIN BaseKeywords \cup {"EXTERNAL", "LOCATION", "ENCODING"} |->
     CASE w = "EXTERNAL" -> "TEMPORARY"
       [] w = "LOCATION" -> "PARTITION"
       [] w = "FORMAT" -> "FORMAT"
       [] w = "ENCODING" -> "CHARACTER_SET"
       [] w = "ON" -> "ON"
       [] w = "ALL" -> "ALL"
       [] OTHER -> BaseKeywords[w]]

PunctType(t) ==
  CASE t = "(" -> "L_PAREN"
    [] t = ")" -> "R_PAREN"
    [] t = "," -> "COMMA"
    [] t = "=" -> "EQ"
    [] t = "." -> "DOT"
    [] OTHER -> "UNKNOWN"

TokenOf(piece) ==
  CASE piece.k = "str" -> [type |-> "STRING", text |-> piece.t]
    [] piece.k = "punct" -> [type |-> PunctType(piece.t), text |-> piece.t]
    [] OTHER ->
         [type |-> IF Upper(piece.t) \in DOMAIN KEYWORDS
                   THEN KEYWORDS[Upper(piece.t)] ELSE "VAR",
          text |-> piece.t]

RECURSIVE Tokenize(_)
Tokenize(text) ==
  IF Len(text) = 0 THEN <<>>
  ELSE IF text[1].k = "ws" THEN Tokenize(Tail(text))
  ELSE <<TokenOf(text[1])>> \o Tokenize(Tail(text))

(***************************************************************************)
(* Expression nodes                                                        *)
(***************************************************************************)
None == [cls |-> "None", this |-> ""]
Literal(s) == [cls |-> "Literal", this |-> s]
Var(s) == [cls |-> "Var", this |-> s]
NoList == [none |-> TRUE, items |-> <<>>]
List(items) == [none |-> FALSE, items |-> items]

LocationProperty(v) == [cls |-> "LocationProperty", this |-> v]
Property(name, v) == [cls |-> "Property", this |-> name, value |-> v]
FileFormatProperty(v, opts) ==
  [cls |-> "FileFormatProperty", this |-> v, expressions |-> opts]
ExternalProperty == [cls |-> "ExternalProperty"]
OnAllProperty == Property("ON ALL", Literal("ON ALL"))

Table(db, name) == [cls |-> "Table", db |-> db, name |-> name]
ColumnDef(name, kind) == [cls |-> "ColumnDef", name |-> name, kind |-> kind]
\* the target of a Create: a Table, wrapped in a Schema (schema = TRUE)
\* with its column definitions when a column list was read
Target(table, schema, columns) ==
  [cls |-> "Target", table |-> table, schema |-> schema, columns |-> columns]

Create(this, kind, exists, replace, properties) ==
  [cls |-> "Create", this |-> this, kind |-> kind, exists |-> exists,
   replace |-> replace, properties |-> properties]
Command(tokens) == [cls |-> "Command", tokens |-> tokens]

\* Expression.error_messages: a mandatory arg that is None
MissingRequired(e) ==
  CASE e.cls = "LocationProperty" -> e.this = None
    [] e.cls = "Property" -> e.value = None
    [] OTHER -> FALSE

\* Expression.name = Expression.text("this")
Name(e) ==
  IF e.cls = "Property" THEN e.this
  ELSE IF "this" \in DOMAIN e /\ e.this.cls \in {"Literal", "Var"}
  THEN e.this.this
  ELSE ""

(***************************************************************************)
(* Parser object and the baseline helpers _parse_create calls              *)
(***************************************************************************)
ErrorLevels == {"IMMEDIATE", "RAISE", "IGNORE"}

\* Parser.__init__ and the dispatch of STATEMENT_PARSERS on the CREATE
\* token: the Parser instance and the frame of _parse_create, the cursor
\* just after the CREATE keyword
NewParser(toks, level) ==
  [tokens |-> toks, index |-> 1, error_level |-> level, errors |-> 0,
   pc |-> "start", exists |-> FALSE, this |-> None, properties |-> <<>>,
   format_value |-> None, format_options |-> NoList,
   outcome |-> "running", result |-> None, entry |-> 1]

Idle == [NewParser(<<>>, "IMMEDIATE") EXCEPT !.pc = "idle"]

Raised(p) == p.outcome = "error"

\* Parser.raise_error: raises under IMMEDIATE, records the error otherwise
raise_error(p) ==
  IF p.error_level = "IMMEDIATE"
  THEN [p EXCEPT !.pc = "done", !.outcome = "error"]
  ELSE [p EXCEPT !.errors = @ + 1]

\* Parser.expression -> validate_expression
expression(p, e) ==
  IF p.error_level # "IGNORE" /\ MissingRequired(e) THEN raise_error(p) ELSE p

\* Parser._match
_match(toks, i, type) ==
  IF i < Len(toks) /\ toks[i + 1].type = type
  THEN [ok |-> TRUE, index |-> i + 1]
  ELSE [ok |-> FALSE, index |-> i]

\* Parser._match_text_seq: every text matches in turn (keyword text, not a
\* string literal), else the cursor retreats to where this call began
_match_text_seq(toks, i, texts) ==
  IF \A k \in 1..Len(texts) :
       /\ i + k <= Len(toks)
       /\ toks[i + k].type # "STRING"
       /\ Upper(toks[i + k].text) = texts[k]
  THEN [ok |-> TRUE, index |-> i + Len(texts)]
  ELSE [ok |-> FALSE, index |-> i]

\* Parser._parse_string: a Literal, or None when no string token is next
_parse_string(toks, i) ==
  IF i < Len(toks) /\ toks[i + 1].type = "STRING"
  THEN [node |-> Literal(toks[i + 1].text), index |-> i + 1]
  ELSE [node |-> None, index |-> i]

\* Parser._parse_var: a Var, or None when no VAR token is next
_parse_var(toks, i) ==
  IF i < Len(toks) /\ toks[i + 1].type = "VAR"
  THEN [node |-> Var(toks[i + 1].text), index |-> i + 1]
  ELSE [node |-> None, index |-> i]

\* Parser._parse_exists(not_=True): IF, NOT, EXISTS matched one by one
_parse_exists(toks, i) ==
  LET a == _match_text_seq(toks, i, <<"IF">>)
      b == _match(toks, a.index, "NOT")
      c == _match(toks, b.index, "EXISTS")
  IN IF ~a.ok THEN [value |-> FALSE, index |-> a.index]
     ELSE IF ~b.ok THEN [value |-> FALSE, index |-> b.index]
     ELSE [value |-> c.ok, index |-> c.index]

\* Parser._parse_table_parts(schema=True): name or db.name
_parse_table_parts(toks, i) ==
  LET a == _parse_var(toks, i)
      d == _match(toks, a.index, "DOT")
      b == _parse_var(toks, d.index)
  IN IF a.node = None THEN [ok |-> FALSE, node |-> Table("", ""), index |-> i]
     ELSE IF d.ok /\ b.node # None
     THEN [ok |-> TRUE, node |-> Table(a.node.this, b.node.this), index |-> b.index]
     ELSE IF d.ok
     THEN [ok |-> FALSE, node |-> Table(a.node.this, ""), index |-> d.index]
     ELSE [ok |-> TRUE, node |-> Table("", a.node.this), index |-> a.index]

\* Parser._parse_column_def(identifier): identifier followed by a type
_parse_column_def(toks, i) ==
  LET a == _parse_var(toks, i)
      t == _match(toks, a.index, "JSON")
  IN IF a.node = None THEN [some |-> FALSE, node |-> ColumnDef("", ""), index |-> i]
     ELSE IF t.ok
     THEN [some |-> TRUE, node |-> ColumnDef(a.node.this, "JSON"), index |-> t.index]
     ELSE [some |-> TRUE, node |-> ColumnDef(a.node.this, ""), index |-> a.index]

\* Parser._parse_csv(parse_method): items separated by commas
RECURSIVE _parse_csv(_, _)
_parse_csv(toks, i) ==
  LET a == _parse_column_def(toks, i)
      c == _match(toks, a.index, "COMMA")
      head == IF a.some THEN <<a.node>> ELSE <<>>
  IN IF c.ok
     THEN LET rest == _parse_csv(toks, c.index)
          IN [items |-> head \o rest.items, index |-> rest.index]
     ELSE [items |-> head, index |-> a.index]

\* Parser._parse_schema(this): an optional parenthesized column list;
\* closed is FALSE when _match_r_paren has to raise
_parse_schema(toks, i) ==
  LET l == _match(toks, i, "L_PAREN")
      cs == _parse_csv(toks, l.index)
      r == _match(toks, cs.index, "R_PAREN")
  IN IF ~l.ok THEN [some |-> FALSE, items |-> <<>>, closed |-> TRUE, index |-> i]
     ELSE [some |-> TRUE, items |-> cs.items, closed |-> r.ok, index |-> r.index]

\* Postgres.Parser._parse_create on the tokens from the cursor on: leading
\* EXTERNAL property, creatable kind, existence guard, target, column list;
\* anything else becomes a Command over the remaining tokens
BaselineParseCreate(toks, i) ==
  LET x == _match_text_seq(toks, i, <<"EXTERNAL">>)
      k == IF _match(toks, x.index, "TABLE").ok THEN "TABLE"
           ELSE IF _match(toks, x.index, "VIEW").ok THEN "VIEW" ELSE ""
      e == _parse_exists(toks, x.index + 1)
      t == _parse_table_parts(toks, e.index)
      s == _parse_schema(toks, t.index)
      props == IF x.ok THEN List(<<ExternalProperty>>) ELSE NoList
  IN IF k # "" /\ t.ok /\ s.closed
     THEN [node |-> Create(Target(t.node, s.some, s.items), k, e.value, FALSE, props),
           index |-> s.index]
     ELSE [node |-> Command(SubSeq(toks, i + 1, Len(toks))), index |-> Len(toks)]

(***************************************************************************)
(* Cloudberry.Parser._parse_create, one operator per step                  *)
(***************************************************************************)
Goto(p, pc) == IF Raised(p) THEN p ELSE [p EXCEPT !.pc = pc]

\* properties.append(self.expression(cls, ...))
AppendProperty(p, e) ==
  LET q == expression(p, e)
  IN IF Raised(q) THEN q ELSE [q EXCEPT !.properties = Append(@, e)]

\* lines 42-46: EXTERNAL and TABLE are matched by two separate calls
DetectExternalTable(p) ==
  LET a == _match_text_seq(p.tokens, p.index, <<"EXTERNAL">>)
      b == _match_text_seq(p.tokens, a.index, <<"TABLE">>)
  IN IF a.ok /\ b.ok
     THEN [p EXCEPT !.index = b.index, !.pc = "target"]
     ELSE [p EXCEPT !.index = a.index, !.pc = "super"]

\* line 118: return super()._parse_create()
DelegateToBaseline(p) ==
  LET r == BaselineParseCreate(p.tokens, p.index)
  IN [p EXCEPT !.pc = "done", !.outcome = "delegated",
               !.result = r.node, !.index = r.index]

\* lines 47-54: existence guard, target, column list, second column list
ParseTarget(p) ==
  LET e == _parse_exists(p.tokens, p.index)
      t == _parse_table_parts(p.tokens, e.index)
      p1 == IF t.ok THEN p ELSE raise_error(p)
      s == _parse_schema(p.tokens, t.index)
      p2 == IF Raised(p1) \/ s.closed THEN p1 ELSE raise_error(p1)
      l == _match(p.tokens, s.index, "L_PAREN")
      cs == _parse_csv(p.tokens, l.index)
      r == _match(p.tokens, cs.index, "R_PAREN")
      p3 == IF Raised(p2) \/ ~l.ok \/ r.ok THEN p2 ELSE raise_error(p2)
      this == IF l.ok THEN Target(t.node, s.some, cs.items)
              ELSE Target(t.node, s.some, s.items)
  IN IF Raised(p3) THEN p3
     ELSE [p3 EXCEPT !.exists = e.value, !.this = this,
                     !.index = IF l.ok THEN r.index ELSE s.index,
                     !.pc = "location"]

\* lines 58-62
ParseLocation(p) ==
  LET k == _match_text_seq(p.tokens, p.index, <<"LOCATION">>)
      l == _match(p.tokens, k.index, "L_PAREN")
      v == _parse_string(p.tokens, l.index)
      r == _match(p.tokens, v.index, "R_PAREN")
      p1 == IF r.ok THEN p ELSE raise_error(p)
  IN IF ~k.ok THEN [p EXCEPT !.pc = "on_all"]
     ELSE IF ~l.ok THEN [p EXCEPT !.index = k.index, !.pc = "on_all"]
     ELSE IF Raised(p1) THEN p1
     ELSE Goto(AppendProperty([p1 EXCEPT !.index = r.index],
                              LocationProperty(v.node)), "on_all")

\* lines 64-67: ON and ALL are matched by two separate calls
ParseOnAll(p) ==
  LET a == _match_text_seq(p.tokens, p.index, <<"ON">>)
      b == _match_text_seq(p.tokens, a.index, <<"ALL">>)
  IN IF a.ok /\ b.ok
     THEN Goto(AppendProperty([p EXCEPT !.index = b.index], OnAllProperty), "format")
     ELSE [p EXCEPT !.index = a.index, !.pc = "format"]

\* lines 69-74: FORMAT <string>, then the option list if a "(" follows
ParseFormat(p) ==
  LET k == _match_text_seq(p.tokens, p.index, <<"FORMAT">>)
      v == _parse_string(p.tokens, k.index)
      l == _match(p.tokens, v.index, "L_PAREN")
  IN IF ~k.ok THEN [p EXCEPT !.pc = "encoding"]
     ELSE [p EXCEPT !.index = l.index, !.format_value = v.node,
                    !.format_options = IF l.ok THEN List(<<>>) ELSE NoList,
                    !.pc = IF l.ok THEN "options" ELSE "format_end"]

OptionKeywords == <<"NULL", "QUOTE", "ESCAPE", "NEWLINE", "FILL">>

\* lines 82-93: the key of one option and the cursor after it
OptionKey(toks, i) ==
  LET hits == {n \in 1..Len(OptionKeywords) :
                 _match_text_seq(toks, i, <<OptionKeywords[n]>>).ok}
      v == _parse_var(toks, i)
  IN IF hits # {}
     THEN [key |-> OptionKeywords[CHOOSE n \in hits : \A m \in hits : n <= m],
           index |-> i + 1]
     ELSE [key |-> IF v.node = None THEN "None" ELSE v.node.this, index |-> v.index]

\* lines 75-100: one iteration of the while True loop
OptionIteration(p) ==
  LET r == _match(p.tokens, p.index, "R_PAREN")
      c == _match(p.tokens, p.index, "COMMA")
      k == OptionKey(p.tokens, p.index)
      q == _match(p.tokens, k.index, "EQ")
      v == _parse_string(p.tokens, q.index)
      prop == Property(k.key, v.node)
      p1 == expression([p EXCEPT !.index = v.index], prop)
  IN IF r.ok THEN [p EXCEPT !.index = r.index, !.pc = "format_end"]
     ELSE IF c.ok THEN [p EXCEPT !.index = c.index]
     ELSE IF Raised(p1) THEN p1
     ELSE [p1 EXCEPT !.format_options = List(Append(@.items, prop))]

\* line 102
AppendFileFormat(p) ==
  Goto(AppendProperty(p, FileFormatProperty(p.format_value, p.format_options)),
       "encoding")

\* lines 104-106
ParseEncoding(p) ==
  LET k == _match_text_seq(p.tokens, p.index, <<"ENCODING">>)
      v == _parse_string(p.tokens, k.index)
  IN IF ~k.ok THEN [p EXCEPT !.pc = "finish"]
     ELSE Goto(AppendProperty([p EXCEPT !.index = v.index],
                              Property("ENCODING", v.node)), "finish")

BuildCreateMarkerIfEmpty(p) ==
  LET q == IF p.properties = <<>> THEN AppendProperty(p, ExternalProperty) ELSE p
  IN [q EXCEPT !.pc = "done", !.outcome = "create",
               !.result = Create(q.this, "TABLE", q.exists, FALSE,
                                 IF q.properties # <<>> THEN List(q.properties)
                                 ELSE NoList)]

\* lines 108-116: the marker is appended and the Create node returned
BuildCreate(p) ==
  LET q == AppendProperty(p, ExternalProperty)
  IN [q EXCEPT !.pc = "done", !.outcome = "create",
               !.result = Create(q.this, "TABLE", q.exists, FALSE,
                                 IF q.properties # <<>> THEN List(q.properties)
                                 ELSE NoList)]

\* _parse_create as a whole: the step the parser takes at its position
_parse_create(p) ==
  CASE p.pc = "start" -> DetectExternalTable(p)
    [] p.pc = "super" -> DelegateToBaseline(p)
    [] p.pc = "target" -> ParseTarget(p)
    [] p.pc = "location" -> ParseLocation(p)
    [] p.pc = "on_all" -> ParseOnAll(p)
    [] p.pc = "format" -> ParseFormat(p)
    [] p.pc = "options" -> OptionIteration(p)
    [] p.pc = "format_end" -> AppendFileFormat(p)
    [] p.pc = "encoding" -> ParseEncoding(p)
    [] p.pc = "finish" -> BuildCreate(p)
    [] OTHER -> p

\* _parse_create run to its return, or cut after MaxLoop options
RECURSIVE Run(_)
Run(p) ==
  IF p.pc = "done" \/ Len(p.format_options.items) >= MaxLoop THEN p
  ELSE Run(_parse_create(p))

(***************************************************************************)
(* Generators                                                              *)
(***************************************************************************)
\* Generator.sql on a value: a quoted string, or "" for None
value_sql(v) == IF v.cls = "Literal" THEN <<St(v.this)>> ELSE <<>>

columndef_sql(c) ==
  IF c.kind = "" THEN <<Wd(c.name)>> ELSE <<Wd(c.name), Sp, Wd(c.kind)>>

RECURSIVE ColumnTexts(_)
ColumnTexts(cols) ==
  IF Len(cols) = 0 THEN <<>>
  ELSE <<columndef_sql(cols[1])>> \o ColumnTexts(Tail(cols))

table_sql(t) ==
  IF t.db = "" THEN <<Wd(t.name)>> ELSE <<Wd(t.db), Pn("."), Wd(t.name)>>

\* Generator.sql(expression, "this") on the target: table_sql / schema_sql
this_sql(this) ==
  IF this.cls # "Target" THEN <<>>
  ELSE IF this.schema
  THEN table_sql(this.table) \o <<Sp, Pn("(")>>
       \o JoinWith(ColumnTexts(this.columns), <<Pn(","), Sp>>) \o <<Pn(")")>>
  ELSE table_sql(this.table)

\* Postgres.Generator.property_sql: the generic name=value rendering
base_property_sql(e) ==
  CASE e.cls = "Property" -> <<Wd(e.this), Pn("=")>> \o value_sql(e.value)
    [] e.cls = "LocationProperty" -> <<Wd("LOCATION"), Sp>> \o value_sql(e.this)
    [] e.cls = "FileFormatProperty" -> <<Wd("FORMAT"), Pn("=")>> \o value_sql(e.this)
    [] e.cls = "EngineProperty" -> <<Wd("ENGINE"), Pn("=")>> \o value_sql(e.this)
    [] OTHER -> <<>>

\* Cloudberry.Generator.property_sql
property_sql(e) ==
  IF Name(e) = "ON ALL" /\ e.cls = "Property" /\ e.value.cls = "Literal"
     /\ e.value.this = "ON ALL"
  THEN <<Wd("ON"), Sp, Wd("ALL")>>
  ELSE base_property_sql(e)

\* self.sql(property): dispatch on the class of the generator instance
dispatch_property_sql(self, e) ==
  IF self = "Cloudberry" THEN property_sql(e) ELSE base_property_sql(e)

RECURSIVE PropertyTexts(_, _)
PropertyTexts(self, props) ==
  IF Len(props) = 0 THEN <<>>
  ELSE IF props[1].cls = "ExternalProperty" THEN PropertyTexts(self, Tail(props))
  ELSE <<dispatch_property_sql(self, props[1])>> \o PropertyTexts(self, Tail(props))

HasMarker(properties) ==
  /\ ~properties.none
  /\ \E i \in 1..Len(properties.items) : properties.items[i].cls = "ExternalProperty"

\* Postgres.Generator.create_sql run on a generator instance of class self:
\* CREATE [EXTERNAL] <kind> [IF NOT EXISTS] <target> and the properties in
\* their generic rendering
super_create_sql(self, e) ==
  LET props == IF e.properties.none THEN <<>>
               ELSE PropertyTexts(self, e.properties.items)
  IN <<Wd("CREATE"), Sp>>
     \o (IF HasMarker(e.properties) THEN <<Wd("EXTERNAL"), Sp>> ELSE <<>>)
     \o (IF e.replace THEN <<Wd("OR"), Sp, Wd("REPLACE"), Sp>> ELSE <<>>)
     \o <<Wd(e.kind), Sp>>
     \o (IF e.exists THEN <<Wd("IF"), Sp, Wd("NOT"), Sp, Wd("EXISTS"), Sp>> ELSE <<>>)
     \o this_sql(e.this)
     \o (IF props = <<>> THEN <<>> ELSE <<Sp>> \o JoinWith(props, <<Sp>>))

\* the branch of the if/elif chain of lines 158-171 a property takes
ClauseOf(prop) ==
  IF prop.cls = "LocationProperty" THEN "location"
  ELSE IF Name(prop) = "ON ALL" THEN "on_all"
  ELSE IF prop.cls = "FileFormatProperty" THEN "format"
  ELSE IF Upper(Name(prop)) = "ENCODING" THEN "encoding"
  ELSE "ignored"

RECURSIVE OptionTextsKeysOnly(_)
OptionTextsKeysOnly(opts) ==
  IF Len(opts) = 0 THEN <<>>
  ELSE <<<<Wd(opts[1].this)>>>> \o OptionTextsKeysOnly(Tail(opts))

RECURSIVE OptionTexts(_)
OptionTexts(opts) ==
  IF Len(opts) = 0 THEN <<>>
  ELSE <<property_sql(opts[1])>> \o OptionTexts(Tail(opts))

\* the clause string a property assigns (lines 159-171)
ClauseText(prop) ==
  CASE ClauseOf(prop) = "location" ->
         <<Wd("LOCATION"), Sp, Pn("(")>> \o value_sql(prop.this) \o <<Pn(")")>>
    [] ClauseOf(prop) = "on_all" -> <<Wd("ON"), Sp, Wd("ALL")>>
    [] ClauseOf(prop) = "format" ->
         <<Wd("FORMAT"), Sp>> \o value_sql(prop.this)
         \o (IF prop.expressions.items # <<>>
             THEN <<Sp, Pn("(")>>
                  \o JoinWith(OptionTexts(prop.expressions.items), <<Pn(","), Sp>>)
                  \o <<Pn(")")>>
             ELSE <<>>)
    [] ClauseOf(prop) = "encoding" ->
         <<Wd("ENCODING"), Sp>>
         \o (IF "value" \in DOMAIN prop THEN value_sql(prop.value) ELSE <<>>)
    [] OTHER -> <<>>

\* lines 151-171: the value a clause string holds after the loop over the
\* properties: the text of the last property taking that branch, else ""
ClauseStr(props, clause) ==
  LET hits == {i \in 1..Len(props) : ClauseOf(props[i]) = clause}
  IN IF hits = {} THEN <<>>
     ELSE ClauseText(props[CHOOSE i \in hits : \A j \in hits : j <= i])

FormatBeforeOnAll == <<"location", "format", "on_all", "encoding">>

CanonicalOrder == <<"location", "on_all", "format", "encoding">>

RECURSIVE IgnoredTexts(_)
IgnoredTexts(props) ==
  IF Len(props) = 0 THEN <<>>
  ELSE (IF ClauseOf(props[1]) = "ignored" /\ props[1].cls # "ExternalProperty"
        THEN <<base_property_sql(props[1])>> ELSE <<>>)
       \o IgnoredTexts(Tail(props))

RECURSIVE ClausesWithFallback(_, _)
ClausesWithFallback(props, n) ==
  IF n > Len(CanonicalOrder) THEN IgnoredTexts(props)
  ELSE LET c == ClauseStr(props, CanonicalOrder[n])
       IN (IF c # <<>> THEN <<c>> ELSE <<>>) \o ClausesWithFallback(props, n + 1)

\* lines 175-179: the non-empty clause strings, in the fixed order
RECURSIVE Clauses(_, _)
Clauses(props, n) ==
  IF n > Len(CanonicalOrder) THEN <<>>
  ELSE LET c == ClauseStr(props, CanonicalOrder[n])
       IN (IF c # <<>> THEN <<c>> ELSE <<>>) \o Clauses(props, n + 1)

\* Cloudberry.Generator.create_sql
create_sql(e) ==
  LET is_external_table == e.kind = "TABLE" /\ HasMarker(e.properties)
      this_part == this_sql(e.this)
      exists_clause == IF e.exists THEN <<Wd("IF"), Sp, Wd("NOT"), Sp, Wd("EXISTS"), Sp>>
                       ELSE <<>>
      replace_clause == IF e.replace THEN <<Wd("OR"), Sp, Wd("REPLACE"), Sp>> ELSE <<>>
      clauses_sql == JoinWith(Clauses(e.properties.items, 1), <<Sp>>)
  IN IF is_external_table
     THEN Strip(<<Wd("CREATE"), Sp, Wd("EXTERNAL"), Sp, Wd("TABLE"), Sp>>
                \o replace_clause \o exists_clause \o this_part \o <<Sp>>
                \o clauses_sql)
     ELSE super_create_sql("Cloudberry", e)

\* Expression.sql(dialect=...): the generator of the class the registry
\* holds under the dialect name
generate(registry, name, e) ==
  IF registry[name] = "Cloudberry" THEN create_sql(e)
  ELSE super_create_sql("Postgres", e)

(***************************************************************************)
(* Dialect registry                                                        *)
(***************************************************************************)
\* Dialect.classes after the Cloudberry class is defined (auto-registered)
RegisteredClasses == [postgres |-> "Postgres", cloudberry |-> "Cloudberry"]

PatchSkipped(registry) == registry

\* lines 190-199: dialect_registry["postgres"] = Cloudberry
PatchRegistry(registry) == [registry EXCEPT !["postgres"] = "Cloudberry"]

\* Parser.parse around _parse_create: a node is handed to the caller when
\* the statement parser finds no token left over and check_errors does not
\* raise the recorded errors
Accepted(p) ==
  /\ p.pc = "done"
  /\ p.outcome # "error"
  /\ \/ p.error_level = "IGNORE"
     \/ p.errors = 0 /\ p.index = Len(p.tokens)

(***************************************************************************)
(* Inputs: CREATE statements, described by head, clauses and options       *)
(***************************************************************************)
SeqsUpTo(S, n) == UNION {[1..k -> S] : k \in 0..n}

ClauseNames == {"LOCATION", "ON ALL", "FORMAT", "ENCODING"}
ClauseOrder == <<"LOCATION", "ON ALL", "FORMAT", "ENCODING">>
InOrder(S) == SelectSeq(ClauseOrder, LAMBDA c : c \in S)

MalformedNames ==
  {"LOCATION-", "LOCATION()", "LOCATION(u", "LOCATION u", "FORMAT-",
   "FORMAT f(", "FORMAT f(k=v", "FORMAT f(k)", "FORMAT f((", "FORMAT f(k",
   "ENCODING-"}
OtherNames == {"ON-", "FORMAT f()", "FORMAT f(=v)"}

OptionNames == {"formatter", "null"}

OptionText(o) ==
  IF o = "formatter" THEN <<Wd("formatter"), Pn("="), St("v")>>
  ELSE <<Wd("null"), St("n")>>

RECURSIVE OptionListText(_)
OptionListText(os) ==
  IF Len(os) = 0 THEN <<>>
  ELSE IF Len(os) = 1 THEN OptionText(os[1])
  ELSE OptionText(os[1]) \o <<Pn(",")>> \o OptionListText(Tail(os))

SegmentText(c, os) ==
  CASE c = "LOCATION" -> <<Wd("LOCATION"), Pn("("), St("u"), Pn(")")>>
    [] c = "ON ALL" -> <<Wd("ON"), Wd("ALL")>>
    [] c = "FORMAT" ->
         <<Wd("FORMAT"), St("f")>>
         \o (IF os = <<>> THEN <<>> ELSE <<Pn("(")>> \o OptionListText(os) \o <<Pn(")")>>)
    [] c = "ENCODING" -> <<Wd("ENCODING"), St("e")>>
    [] c = "LOCATION-" -> <<Wd("LOCATION")>>
    [] c = "LOCATION()" -> <<Wd("LOCATION"), Pn("("), Pn(")")>>
    [] c = "LOCATION(u" -> <<Wd("LOCATION"), Pn("("), St("u")>>
    [] c = "LOCATION u" -> <<Wd("LOCATION"), St("u")>>
    [] c = "ON-" -> <<Wd("ON")>>
    [] c = "FORMAT-" -> <<Wd("format")>>
    [] c = "FORMAT f(" -> <<Wd("FORMAT"), St("f"), Pn("(")>>
    [] c = "FORMAT f(k=v" -> <<Wd("FORMAT"), St("f"), Pn("("), Wd("formatter"), Pn("="), St("v")>>
    [] c = "FORMAT f(k)" -> <<Wd("FORMAT"), St("f"), Pn("("), Wd("formatter"), Pn(")")>>
    [] c = "FORMAT f(k" -> <<Wd("FORMAT"), St("f"), Pn("("), Wd("formatter")>>
    [] c = "FORMAT f(=v)" -> <<Wd("FORMAT"), St("f"), Pn("("), Pn("="), St("v"), Pn(")")>>
    [] c = "FORMAT f((" -> <<Wd("FORMAT"), St("f"), Pn("("), Pn("(")>>
    [] c = "FORMAT f()" -> <<Wd("FORMAT"), St("f"), Pn("("), Pn(")")>>
    [] c = "ENCODING-" -> <<Wd("ENCODING")>>
    [] OTHER -> <<>>

ExternalHeads == {"plain", "guarded", "columns", "full"}
BrokenHeads == {"no_target", "open_columns", "two_lists"}
OtherHeads == {"table", "view", "external_view", "external_only"}

HeadText(h) ==
  CASE h = "plain" -> <<Wd("EXTERNAL"), Wd("TABLE"), Wd("t")>>
    [] h = "full" ->
         <<Wd("EXTERNAL"), Wd("TABLE"), Wd("IF"), Wd("NOT"), Wd("EXISTS"),
           Wd("s"), Pn("."), Wd("t"), Pn("("), Wd("c"), Wd("json"), Pn(")")>>
    [] h = "guarded" ->
         <<Wd("EXTERNAL"), Wd("TABLE"), Wd("IF"), Wd("NOT"), Wd("EXISTS"), Wd("t")>>
    [] h = "columns" ->
         <<Wd("EXTERNAL"), Wd("TABLE"), Wd("t"), Pn("("), Wd("c"), Wd("json"),
           Pn(","), Wd("d"), Pn(")")>>
    [] h = "no_target" -> <<Wd("EXTERNAL"), Wd("TABLE")>>
    [] h = "open_columns" -> <<Wd("EXTERNAL"), Wd("TABLE"), Wd("t"), Pn("("), Wd("c"), Wd("json")>>
    [] h = "two_lists" ->
         <<Wd("EXTERNAL"), Wd("TABLE"), Wd("t"), Pn("("), Wd("c"), Wd("json"), Pn(")"),
           Pn("("), Wd("d"), Pn(")")>>
    [] h = "table" -> <<Wd("TABLE"), Wd("t"), Pn("("), Wd("c"), Wd("json"), Pn(")")>>
    [] h = "view" -> <<Wd("VIEW"), Wd("t")>>
    [] h = "external_view" -> <<Wd("EXTERNAL"), Wd("VIEW"), Wd("t")>>
    [] OTHER -> <<Wd("EXTERNAL")>>

RECURSIVE SegmentsText(_, _)
SegmentsText(cs, os) ==
  IF Len(cs) = 0 THEN <<>>
  ELSE SegmentText(cs[1], os) \o SegmentsText(Tail(cs), os)

Input(h, cs, os) == [head |-> h, clauses |-> cs, options |-> os]

SourceText(src) ==
  <<Wd("CREATE")>> \o HeadText(src.head) \o SegmentsText(src.clauses, src.options)

HasClause(cs, c) == \E i \in 1..Len(cs) : cs[i] = c

OptionListsFor(cs) ==
  IF HasClause(cs, "FORMAT") THEN SeqsUpTo(OptionNames, MaxOpts) ELSE {<<>>}

\* the syntax surface: any subset of the clauses, in the documented order
ConformingInputs ==
  UNION {{Input(h, InOrder(S), os) : os \in OptionListsFor(InOrder(S))} :
           h \in ExternalHeads, S \in SUBSET ClauseNames}

\* well-formed clauses in any order, repeats included
AnyOrderInputs ==
  UNION {{Input(h, cs, os) : os \in OptionListsFor(cs)} :
           h \in ExternalHeads, cs \in SeqsUpTo(ClauseNames, MaxClauses)}

\* one clause whose operand is missing or cut short, alone or followed by
\* a well-formed clause
MalformedInputs ==
  {Input("plain", <<m>> \o rest, <<>>) :
     m \in MalformedNames \cup OtherNames, rest \in {<<>>, <<"ENCODING">>}}

OtherInputs ==
  {Input(h, cs, <<>>) : h \in BrokenHeads \cup OtherHeads, cs \in {<<>>, <<"LOCATION">>}}

Inputs == ConformingInputs \cup AnyOrderInputs \cup MalformedInputs \cup OtherInputs

(***************************************************************************)
(* Parse, generate, parse again                                            *)
(***************************************************************************)
Init ==
  /\ source \in Inputs
  /\ \E level \in ErrorLevels :
       parser = NewParser(Tokenize(SourceText(source)), level)
  /\ classes = PatchRegistry(RegisteredClasses)
  /\ pass = 1
  /\ write = ""
  /\ generated = <<>>
  /\ node = None

DoDetectExternalTable ==
  /\ parser.pc = "start"
  /\ parser' = DetectExternalTable(parser)
  /\ UNCHANGED <<source, classes, pass, write, generated, node>>

DoDelegateToBaseline ==
  /\ parser.pc = "super"
  /\ parser' = DelegateToBaseline(parser)
  /\ UNCHANGED <<source, classes, pass, write, generated, node>>

DoParseTarget ==
  /\ parser.pc = "target"
  /\ parser' = ParseTarget(parser)
  /\ UNCHANGED <<source, classes, pass, write, generated, node>>

DoParseLocation ==
  /\ parser.pc = "location"
  /\ parser' = ParseLocation(parser)
  /\ UNCHANGED <<source, classes, pass, write, generated, node>>

DoParseOnAll ==
  /\ parser.pc = "on_all"
  /\ parser' = ParseOnAll(parser)
  /\ UNCHANGED <<source, classes, pass, write, generated, node>>

DoParseFormat ==
  /\ parser.pc = "format"
  /\ parser' = ParseFormat(parser)
  /\ UNCHANGED <<source, classes, pass, write, generated, node>>

DoOptionIteration ==
  /\ parser.pc = "options"
  /\ Len(parser.format_options.items) < MaxLoop
  /\ parser' = OptionIteration(parser)
  /\ UNCHANGED <<source, classes, pass, write, generated, node>>

DoAppendFileFormat ==
  /\ parser.pc = "format_end"
  /\ parser' = AppendFileFormat(parser)
  /\ UNCHANGED <<source, classes, pass, write, generated, node>>

DoParseEncoding ==
  /\ parser.pc = "encoding"
  /\ parser' = ParseEncoding(parser)
  /\ UNCHANGED <<source, classes, pass, write, generated, node>>

DoBuildCreate ==
  /\ parser.pc = "finish"
  /\ parser' = BuildCreate(parser)
  /\ UNCHANGED <<source, classes, pass, write, generated, node>>

\* parsed.sql(dialect=name)
Generate ==
  /\ pass = 1
  /\ write = ""
  /\ Accepted(parser)
  /\ parser.result.cls = "Create"
  /\ \E name \in DOMAIN classes :
       /\ write' = name
       /\ generated' = generate(classes, name, parser.result)
  /\ node' = parser.result
  /\ UNCHANGED <<source, parser, classes, pass>>

\* parse_one(regenerated, dialect="cloudberry")
Reparse ==
  /\ pass = 1
  /\ write # ""
  /\ parser' = NewParser(Tokenize(generated), parser.error_level)
  /\ pass' = 2
  /\ UNCHANGED <<source, classes, write, generated, node>>

Next ==
  \/ DoDetectExternalTable
  \/ DoDelegateToBaseline
  \/ DoParseTarget
  \/ DoParseLocation
  \/ DoParseOnAll
  \/ DoParseFormat
  \/ DoOptionIteration
  \/ DoAppendFileFormat
  \/ DoParseEncoding
  \/ DoBuildCreate
  \/ Generate
  \/ Reparse

Spec == Init /\ [][Next]_vars

(***************************************************************************)
(* Generation of hand-built Create nodes                                   *)
(***************************************************************************)
\* longest properties collection of a hand-built node
MaxProps == 5

EngineProperty(v) == [cls |-> "EngineProperty", this |-> v]

PropertyBlocks ==
  {LocationProperty(Literal("u")), OnAllProperty,
   FileFormatProperty(Literal("f"), NoList),
   Property("ENCODING", Literal("e")), Property("OWNER", Literal("o")),
   EngineProperty(Literal("x")), ExternalProperty}

Distinct(seq) == \A i, j \in 1..Len(seq) : i # j => seq[i] # seq[j]

WithOptions(prop) ==
  IF prop.cls = "FileFormatProperty"
  THEN FileFormatProperty(prop.this, List(<<Property("formatter", Literal("v")),
                                            Property("NULL", Literal("n"))>>))
  ELSE prop

PropertyLists ==
  LET plain == {ps \in SeqsUpTo(PropertyBlocks, MaxProps) : Distinct(ps)}
  IN plain \cup {[i \in 1..Len(ps) |-> WithOptions(ps[i])] : ps \in plain}

Nodes ==
  {Create(Target(Table("s", "t"), TRUE, <<ColumnDef("c", "JSON")>>), k, x, x, ps) :
     k \in {"TABLE", "VIEW"}, x \in BOOLEAN,
     ps \in {NoList} \cup {List(l) : l \in PropertyLists}}

GenInit ==
  /\ node \in Nodes
  /\ source = Input("none", <<>>, <<>>)
  /\ parser = Idle
  /\ classes = PatchRegistry(RegisteredClasses)
  /\ pass = 0
  /\ write = ""
  /\ generated = <<>>

\* node.sql(dialect=name)
GenerateNode ==
  /\ pass = 0
  /\ write = ""
  /\ \E name \in DOMAIN classes :
       /\ write' = name
       /\ generated' = generate(classes, name, node)
  /\ UNCHANGED <<source, parser, classes, pass, node>>

GenNext == GenerateNode

GenSpec == GenInit /\ [][GenNext]_vars

(***************************************************************************)
(* Properties                                                              *)
(***************************************************************************)
Contains(text, sub) ==
  \E i \in 1..(Len(text) - Len(sub) + 1) : SubSeq(text, i, i + Len(sub) - 1) = sub

Count(props, P(_)) == Cardinality({i \in 1..Len(props) : P(props[i])})

IsLocation(p) == p.cls = "LocationProperty"
IsFileFormat(p) == p.cls = "FileFormatProperty"
IsOnAll(p) == p.cls = "Property" /\ p.this = "ON ALL"
IsEncoding(p) == p.cls = "Property" /\ p.this = "ENCODING"
IsMarker(p) == p.cls = "ExternalProperty"
IsUnknown(p) ==
  ~(IsLocation(p) \/ IsFileFormat(p) \/ IsOnAll(p) \/ IsEncoding(p) \/ IsMarker(p))

IsExternalCreate(e) ==
  e.cls = "Create" /\ e.kind = "TABLE" /\ HasMarker(e.properties)

ParsedExternal == parser.pc = "done" /\ parser.outcome = "create"

\* C1: for a conforming input the first parse is accepted, and the text
\* generated from it is accepted again and parses to the same Create node
\* (target, existence guard, clauses and values)
RoundTrip ==
  source \in ConformingInputs /\ parser.pc = "done" =>
    /\ ParsedExternal
    /\ Accepted(parser)
    /\ pass = 2 => parser.result = node /\ IsExternalCreate(node)

RoundTripWitness ==
  /\ pass = 2
  /\ parser.pc = "done"
  /\ source = Input("full", ClauseOrder, <<"formatter", "null">>)
  /\ parser.result = node
  /\ Len(node.properties.items) = 5

\* C2 (as claimed): well-formed distinct clauses supplied in any order are
\* all recognized, and the text generated equals the text generated for the
\* same clauses supplied in the order LOCATION, ON ALL, FORMAT, ENCODING
InCanonicalOrder(src) ==
  Input(src.head, InOrder({src.clauses[i] : i \in 1..Len(src.clauses)}), src.options)

Recognized(c, props) ==
  CASE c = "LOCATION" -> Count(props, IsLocation) = 1
    [] c = "ON ALL" -> Count(props, IsOnAll) = 1
    [] c = "FORMAT" -> Count(props, IsFileFormat) = 1
    [] OTHER -> Count(props, IsEncoding) = 1

OrderIndependence ==
  /\ pass = 1
  /\ parser.pc = "done"
  /\ source \in AnyOrderInputs
  /\ Distinct(source.clauses)
  => /\ ParsedExternal
     /\ \A i \in 1..Len(source.clauses) :
          Recognized(source.clauses[i], parser.result.properties.items)
     /\ create_sql(parser.result) =
          create_sql(Run(NewParser(Tokenize(SourceText(InCanonicalOrder(source))),
                                   parser.error_level)).result)

\* C3 (as claimed): when EXTERNAL TABLE is absent the baseline parser is
\* entered with the cursor where it was on entry, and its result for the
\* tokens after CREATE is what _parse_create returns
DelegationKeepsCursor ==
  /\ parser.pc = "super" => parser.index = parser.entry
  /\ parser.outcome = "delegated" =>
       parser.result = BaselineParseCreate(parser.tokens, parser.entry).node

\* C4 (as claimed): an external-table Create generated for the registry
\* name "postgres" is the baseline generator's text, without the dedicated
\* CREATE EXTERNAL TABLE form and its clauses
StartsExternalTable(text) ==
  Len(text) >= 5 /\ SubSeq(text, 1, 5) = <<Wd("CREATE"), Sp, Wd("EXTERNAL"), Sp, Wd("TABLE")>>

GeneratedFromExternalParse ==
  /\ pass >= 1
  /\ write = "postgres"
  /\ source.head \in ExternalHeads
  /\ IsExternalCreate(node)

HasOperand(prop) ==
  /\ ~IsMarker(prop)
  /\ IsLocation(prop) \/ IsFileFormat(prop) => prop.this # None
  /\ prop.cls = "Property" => prop.value # None

GeneratedExternalNode ==
  /\ pass = 0
  /\ write # ""
  /\ IsExternalCreate(node)

UnknownPropertyRendered ==
  GeneratedExternalNode =>
    \A i \in 1..Len(node.properties.items) :
      LET prop == node.properties.items[i]
      IN IsUnknown(prop) => Contains(generated, base_property_sql(prop))

\* C5 (amended): such a property is ignored: a text is produced all the
\* same, and neither the property's name nor its value occurs in it
UnknownWords(prop) ==
  {base_property_sql(prop)[j] : j \in {j \in 1..Len(base_property_sql(prop)) :
                                         base_property_sql(prop)[j].k # "punct"}}

UnknownPropertyIgnored ==
  GeneratedExternalNode =>
    /\ StartsExternalTable(generated)
    /\ \A i \in 1..Len(node.properties.items) :
         LET prop == node.properties.items[i]
         IN IsUnknown(prop) =>
              \A j \in 1..Len(generated) : generated[j] \notin UnknownWords(prop)

UnknownPropertyWitness ==
  /\ GeneratedExternalNode
  /\ \E i \in 1..Len(node.properties.items) :
       node.properties.items[i] = EngineProperty(Literal("x"))
  /\ \E i \in 1..Len(node.properties.items) :
       node.properties.items[i] = Property("OWNER", Literal("o"))
  /\ Contains(generated, <<Wd("ENCODING"), Sp, St("e")>>)

\* C6 (as claimed): a recognized clause keyword whose operand is missing
\* or cut short makes _parse_create end in an error, with no Create node
MalformedClauseIsError ==
  /\ pass = 1
  /\ parser.pc = "done"
  /\ source \in MalformedInputs
  /\ source.clauses[1] \in MalformedNames
  => parser.outcome = "error" /\ parser.result = None

\* C7: every Create node of the external-table branch carries exactly one
\* ExternalMarker and at most one each of Location, FileFormat, ON ALL and
\* ENCODING
PropertiesInvariant ==
  ParsedExternal =>
    LET props == parser.result.properties.items
    IN /\ ~parser.result.properties.none
       /\ Count(props, IsMarker) = 1
       /\ Count(props, IsLocation) <= 1
       /\ Count(props, IsFileFormat) <= 1
       /\ Count(props, IsOnAll) <= 1
       /\ Count(props, IsEncoding) <= 1

PropertiesInvariantWitness ==
  /\ ParsedExternal
  /\ pass = 1
  /\ source.clauses = <<"LOCATION", "FORMAT", "FORMAT">>
  /\ Len(parser.result.properties.items) = 3

\* C8: for an external-table Create with the marker and at most one each
\* of Location, ON ALL, FileFormat and ENCODING, in any order, the text is
\* CREATE EXTERNAL TABLE, the target, then the present clauses in the order
\* LOCATION, ON ALL, FORMAT, ENCODING, one blank between clauses and
\* nothing for an absent one
CleanExternal(e) ==
  /\ IsExternalCreate(e)
  /\ \A i \in 1..Len(e.properties.items) : ~IsUnknown(e.properties.items[i])
  /\ Distinct(e.properties.items)

RECURSIVE ExpectedOptions(_)
ExpectedOptions(opts) ==
  IF Len(opts) = 0 THEN <<>>
  ELSE <<Wd(opts[1].this), Pn("="), St(opts[1].value.this)>>
       \o (IF Len(opts) > 1 THEN <<Pn(","), Sp>> ELSE <<>>)
       \o ExpectedOptions(Tail(opts))

ExpectedClause(props, c) ==
  LET P(p) == CASE c = "LOCATION" -> IsLocation(p)
                [] c = "ON ALL" -> IsOnAll(p)
                [] c = "FORMAT" -> IsFileFormat(p)
                [] OTHER -> IsEncoding(p)
      hits == {i \in 1..Len(props) : P(props[i])}
      prop == props[CHOOSE i \in hits : TRUE]
  IN IF hits = {} THEN <<>>
     ELSE <<Sp>> \o
       (CASE c = "LOCATION" -> <<Wd("LOCATION"), Sp, Pn("("), St(prop.this.this), Pn(")")>>
          [] c = "ON ALL" -> <<Wd("ON"), Sp, Wd("ALL")>>
          [] c = "FORMAT" ->
               <<Wd("FORMAT"), Sp, St(prop.this.this)>>
               \o (IF prop.expressions.items = <<>> THEN <<>>
                   ELSE <<Sp, Pn("(")>> \o ExpectedOptions(prop.expressions.items)
                        \o <<Pn(")")>>)
          [] OTHER -> <<Wd("ENCODING"), Sp, St(prop.value.this)>>)

ExpectedText(e) ==
  <<Wd("CREATE"), Sp, Wd("EXTERNAL"), Sp, Wd("TABLE"), Sp>>
  \o (IF e.replace THEN <<Wd("OR"), Sp, Wd("REPLACE"), Sp>> ELSE <<>>)
  \o (IF e.exists THEN <<Wd("IF"), Sp, Wd("NOT"), Sp, Wd("EXISTS"), Sp>> ELSE <<>>)
  \o this_sql(e.this)
  \o ExpectedClause(e.properties.items, "LOCATION")
  \o ExpectedClause(e.properties.items, "ON ALL")
  \o ExpectedClause(e.properties.items, "FORMAT")
  \o ExpectedClause(e.properties.items, "ENCODING")

CanonicalGeneration ==
  pass = 0 /\ write # "" /\ CleanExternal(node) => generated = ExpectedText(node)

CanonicalGenerationWitness ==
  /\ pass = 0
  /\ write # ""
  /\ CleanExternal(node)
  /\ Len(node.properties.items) = 5
  /\ IsEncoding(node.properties.items[1])
  /\ IsFileFormat(node.properties.items[2])
  /\ IsLocation(node.properties.items[5])

\* C9 (as claimed): a Create without the marker, without properties or of
\* a kind other than TABLE is rendered with exactly the text the baseline
\* generator produces for it
GeneratorDelegation ==
  pass = 0 /\ write # "" /\ ~IsExternalCreate(node) =>
    generated = super_create_sql("Postgres", node)

\* C10 (as claimed): an iteration of the FORMAT option loop that neither
\* leaves the loop nor ends in an error consumes at least one token
OptionLoopProgress ==
  [][parser.pc = "options" /\ parser'.pc = "options" =>
       parser'.index > parser.index]_vars

====
